---------------------------- MODULE Spec2Model ----------------------------
(***************************************************************************)
(* systemd-boot-conf: the loader.conf / loader/entries/*.conf manager.     *)
(*                                                                         *)
(* Text is modelled as sequences of one-character strings, so that         *)
(* tokenising, line splitting, formatting and number parsing are computed  *)
(* the way the code computes them.  Option<T> is <<>> (None) or <<x>>      *)
(* (Some(x)).                                                              *)
(***************************************************************************)
EXTENDS Integers, Sequences, FiniteSets, TLC

VARIABLES
    dir,          \* loader/entries as enumerated by read_dir: Seq of [name, kind, text]
    dirOk,        \* whether loader/entries can be opened
    loaderFile,   \* loader/loader.conf on disk: [kind, text]
    entries,      \* SystemdBootConf.entries
    loader_conf,  \* SystemdBootConf.loader_conf
    result,       \* outcome of the last SystemdBootConf call
    io,           \* what the last write-back produced and whether a syscall failed
    procCmdline,  \* /proc/cmdline: <<>> when unreadable, <<text>> otherwise
    CMDLINE_BUF,  \* OnceCell<Box<str>>
    CMDLINE,      \* OnceCell<Box<[&str]>>
    pc,           \* per thread: position inside is_current / kernel_cmdline
    self_entry,   \* per thread: the Entry whose is_current is running
    ret,          \* per thread: Option of the last is_current result
    seen,         \* per thread: Option of the last slice kernel_cmdline returned
    returned,     \* every slice kernel_cmdline ever returned
    reads,        \* number of reads of /proc/cmdline
    builds,       \* number of token sequences built
    calls         \* number of is_current calls started

vars == <<dir, dirOk, loaderFile, entries, loader_conf, result, io,
          procCmdline, CMDLINE_BUF, CMDLINE, pc, self_entry, ret, seen,
          returned, reads, builds, calls>>

mgrVars == <<dir, dirOk, loaderFile, entries, loader_conf, result, io>>
cmdVars == <<procCmdline, CMDLINE_BUF, CMDLINE, pc, self_entry, ret, seen,
             returned, reads, builds, calls>>

(***************************************************************************)
(* Bounds                                                                  *)
(***************************************************************************)
MaxLines == 3        \* lines of an entry file drawn by InitEntry
MaxLoaderLines == 2  \* lines of loader.conf drawn by InitLoader
MaxItems == 2        \* directory items drawn by InitDir
MaxFailAt == 3       \* a write-back's failing syscall is one of the first MaxFailAt
BufCap == 16         \* capacity of the BufWriter (scaled down with the file sizes)
NThreads == 2        \* threads calling is_current
MaxCalls == 3        \* is_current calls over all threads

(***************************************************************************)
(* Text                                                                    *)
(***************************************************************************)
None == <<>>
Some(x) == <<x>>
IsSome(o) == o # <<>>
Unwrap(o) == o[1]

Min(a, b) == IF a <= b THEN a ELSE b

RECURSIVE Concat(_)
Concat(ss) == IF ss = <<>> THEN <<>> ELSE Head(ss) \o Concat(Tail(ss))

kwTitle   == <<"t","i","t","l","e">>
kwLinux   == <<"l","i","n","u","x">>
kwInitrd  == <<"i","n","i","t","r","d">>
kwOptions == <<"o","p","t","i","o","n","s">>
kwDefault == <<"d","e","f","a","u","l","t">>
kwTimeout == <<"t","i","m","e","o","u","t">>
extConf   == <<"c","o","n","f">>
SP == <<" ">>
NL == <<"\n">>

\* char::is_whitespace restricted to the characters of the model
IsWhitespace(c) == c \in {" ", "\t", "\n", "\r"}

RECURSIVE SplitAcc(_, _, _)
SplitAcc(s, cur, acc) ==
    IF s = <<>> THEN (IF cur = <<>> THEN acc ELSE Append(acc, cur))
    ELSE IF IsWhitespace(Head(s))
         THEN SplitAcc(Tail(s), <<>>, IF cur = <<>> THEN acc ELSE Append(acc, cur))
         ELSE SplitAcc(Tail(s), Append(cur, Head(s)), acc)

\* str::split_whitespace / str::split_ascii_whitespace, collected
SplitWhitespace(s) == SplitAcc(s, <<>>, <<>>)

StripCR(l) == IF l # <<>> /\ l[Len(l)] = "\r" THEN SubSeq(l, 1, Len(l) - 1) ELSE l

RECURSIVE LinesAcc(_, _, _)
LinesAcc(s, cur, acc) ==
    IF s = <<>> THEN (IF cur = <<>> THEN acc ELSE Append(acc, cur))
    ELSE IF Head(s) = "\n"
         THEN LinesAcc(Tail(s), <<>>, Append(acc, StripCR(cur)))
         ELSE LinesAcc(Tail(s), Append(cur, Head(s)), acc)

\* BufRead::lines, collected
Lines(text) == LinesAcc(text, <<>>, <<>>)

RECURSIVE Join(_, _)
\* Itertools::join / [T]::join
Join(fields, sep) ==
    IF fields = <<>> THEN <<>>
    ELSE IF Len(fields) = 1 THEN Head(fields)
    ELSE Head(fields) \o sep \o Join(Tail(fields), sep)

LastDot(name) ==
    LET ds == {i \in 1..Len(name) : name[i] = "."}
    IN IF ds = {} THEN 0 ELSE CHOOSE i \in ds : \A j \in ds : j <= i

\* Path::file_stem of a file name inside the entries directory
FileStem(name) ==
    LET d == LastDot(name)
    IN IF d <= 1 THEN name ELSE SubSeq(name, 1, d - 1)

\* Path::extension
Extension(name) ==
    LET d == LastDot(name)
    IN IF d <= 1 THEN None ELSE Some(SubSeq(name, d + 1, Len(name)))

(***************************************************************************)
(* Entry                                                                   *)
(***************************************************************************)
EntryDefault == [id |-> <<>>, initrd |-> None, linux |-> <<>>,
                 options |-> <<>>, title |-> <<>>]

Item(dirSeq, name) ==
    LET is == {i \in 1..Len(dirSeq) : dirSeq[i].name = name}
    IN IF is = {} THEN None ELSE Some(dirSeq[CHOOSE i \in is : TRUE])

\* Path::is_file
IsFile(it) == it.kind \in {"file", "locked"}

\* one iteration of the loop over the lines of an entry file
EntryLine(entry, line) ==
    LET fields == SplitWhitespace(line)
        key    == Head(fields)
        rest   == Tail(fields)
    IN IF fields = <<>> THEN [err |-> "none", entry |-> entry]
       ELSE IF key = kwTitle
            THEN [err |-> "none", entry |-> [entry EXCEPT !.title = Join(rest, SP)]]
       ELSE IF key = kwLinux
            THEN IF rest = <<>>
                 THEN [err |-> "NoValueForLinux", entry |-> entry]
                 ELSE [err |-> "none", entry |-> [entry EXCEPT !.linux = Head(rest)]]
       ELSE IF key = kwInitrd
            THEN IF rest = <<>>
                 THEN [err |-> "NoValueForInitrd", entry |-> entry]
                 ELSE [err |-> "none",
                       entry |-> [entry EXCEPT !.initrd = Some(Head(rest))]]
       ELSE IF key = kwOptions
            THEN [err |-> "none", entry |-> [entry EXCEPT !.options = rest]]
       ELSE [err |-> "none", entry |-> entry]

RECURSIVE EntryLoop(_, _)
EntryLoop(entry, lines) ==
    IF lines = <<>> THEN [err |-> "none", entry |-> entry]
    ELSE LET r == EntryLine(entry, Head(lines))
         IN IF r.err # "none" THEN r ELSE EntryLoop(r.entry, Tail(lines))

\* the checks after the loop, linux looked at before title
EntryFinishLinuxFirst(entry) ==
    IF entry.linux = <<>> THEN [err |-> "MissingLinux", entry |-> entry]
    ELSE IF entry.title = <<>> THEN [err |-> "MisisngTitle", entry |-> entry]
    ELSE [err |-> "none", entry |-> entry]

\* the checks after the loop
EntryFinish(entry) ==
    IF entry.title = <<>> THEN [err |-> "MisisngTitle", entry |-> entry]
    ELSE IF entry.linux = <<>> THEN [err |-> "MissingLinux", entry |-> entry]
    ELSE [err |-> "none", entry |-> entry]

\* Entry::from_path of entries_path/name
EntryFromPath(dirSeq, name) ==
    LET it == Item(dirSeq, name)
    IN IF ~IsSome(it) \/ ~IsFile(Unwrap(it))
       THEN [err |-> "NotAFile", entry |-> EntryDefault]
       ELSE IF Unwrap(it).kind = "locked"
       THEN [err |-> "Open", entry |-> EntryDefault]
       ELSE LET r == EntryLoop([EntryDefault EXCEPT !.id = FileStem(name)],
                               Lines(Unwrap(it).text))
            IN IF r.err # "none" THEN [err |-> r.err, entry |-> EntryDefault]
               ELSE LET f == EntryFinish(r.entry)
                    IN IF f.err # "none" THEN [err |-> f.err, entry |-> EntryDefault]
                       ELSE f

(***************************************************************************)
(* SystemdBootConf: results                                                *)
(***************************************************************************)
\* Result<_, Error> of a call; path, source and text are the payload of the
\* Error variant (source is the EntryError / LoaderError kind, text is the
\* String of TimeoutNaN); value is what default_entry_exists returned.
Res(op, err, path, source, text, value) ==
    [op |-> op, err |-> err, path |-> path, source |-> source,
     text |-> text, value |-> value]

ResOk(op) == Res(op, "none", <<>>, "none", <<>>, "none")
ResErr(op, err) == Res(op, err, <<>>, "none", <<>>, "none")
NoIo == [failed |-> FALSE, produced |-> <<>>, path |-> <<>>]

(***************************************************************************)
(* SystemdBootConf::load_entries                                           *)
(***************************************************************************)
\* entries.clear() left out
NotCleared(old) == old

\* entries.clear()
Cleared(old) == <<>>

\* the filter "only consider conf files in the directory"
Skipped(it) == ~IsFile(it) \/ Extension(it.name) # Some(extConf)

\* a failing Entry::from_path swallowed: the load ends Ok without the file
EntryFailureSkipped(op, name, source, acc) ==
    [res |-> ResOk(op), entries |-> acc]

\* what a failing Entry::from_path does to the loop
EntryFailure(op, name, source, acc) ==
    [res |-> Res(op, "Entry", name, source, <<>>, "none"), entries |-> acc]

RECURSIVE LoadLoop(_, _, _)
LoadLoop(dirSeq, i, acc) ==
    IF i > Len(dirSeq) THEN [res |-> ResOk("load_entries"), entries |-> acc]
    ELSE LET it == dirSeq[i]
         IN IF it.kind = "err"
            THEN [res |-> ResErr("load_entries", "FileEntry"), entries |-> acc]
            ELSE IF Skipped(it) THEN LoadLoop(dirSeq, i + 1, acc)
            ELSE LET r == EntryFromPath(dirSeq, it.name)
                 IN IF r.err # "none"
                    THEN EntryFailure("load_entries", it.name, r.err, acc)
                    ELSE LoadLoop(dirSeq, i + 1, Append(acc, r.entry))

LoadEntries ==
    /\ IF ~dirOk
       THEN /\ entries' = entries
            /\ result' = ResErr("load_entries", "EntriesDir")
       ELSE LET r == LoadLoop(dir, 1, Cleared(entries))
            IN /\ entries' = r.entries
               /\ result' = r.res
    /\ io' = NoIo
    /\ UNCHANGED <<dir, dirOk, loaderFile, loader_conf>>
    /\ UNCHANGED cmdVars

(***************************************************************************)
(* SystemdBootConf::try_io: File::create, BufWriter, the closure, drop     *)
(***************************************************************************)
\* The writer: disk is the file's content, buf the BufWriter's buffer, n the
\* number of syscalls made so far, err whether the closure has failed,
\* failed whether any syscall has failed.  Syscall number failAt fails
\* (0: none does); a failing write writes nothing.
InnerWrite(st, data, failAt) ==
    IF data = <<>> THEN st
    ELSE IF st.n + 1 = failAt
         THEN [st EXCEPT !.n = st.n + 1, !.err = TRUE, !.failed = TRUE]
         ELSE [st EXCEPT !.n = st.n + 1, !.disk = st.disk \o data]

\* BufWriter::flush_buf
FlushBuf(st, failAt) ==
    LET w == InnerWrite(st, st.buf, failAt)
    IN IF w.err THEN w ELSE [w EXCEPT !.buf = <<>>]

\* BufWriter::write_all
WriteAll(st, data, failAt) ==
    LET s1 == IF Len(st.buf) + Len(data) > BufCap THEN FlushBuf(st, failAt) ELSE st
    IN IF s1.err THEN s1
       ELSE IF Len(data) >= BufCap THEN InnerWrite(s1, data, failAt)
       ELSE [s1 EXCEPT !.buf = s1.buf \o data]

RECURSIVE Instructions(_, _, _)
\* the closure: a sequence of write_all calls, each followed by `?`
Instructions(st, chunks, failAt) ==
    IF chunks = <<>> \/ st.err THEN st
    ELSE Instructions(WriteAll(st, Head(chunks), failAt), Tail(chunks), failAt)

\* impl Drop for BufWriter: flush_buf, its result discarded
DropWriter(st, failAt) ==
    LET f == FlushBuf([st EXCEPT !.err = FALSE], failAt)
    IN [f EXCEPT !.err = st.err]

\* try_io(path, instructions); canCreate: whether File::create can succeed
TryIo(canCreate, chunks, failAt) ==
    IF ~canCreate \/ failAt = 1
    THEN [ok |-> FALSE, created |-> FALSE, disk |-> <<>>, failed |-> TRUE]
    ELSE LET st0 == [disk |-> <<>>, buf |-> <<>>, n |-> 1,
                     err |-> FALSE, failed |-> FALSE]
             st1 == Instructions(st0, chunks, failAt)
             st2 == DropWriter(st1, failAt)
         IN [ok |-> ~st1.err, created |-> TRUE, disk |-> st2.disk,
             failed |-> st2.failed]

(***************************************************************************)
(* SystemdBootConf::overwrite_entry_conf                                   *)
(***************************************************************************)
\* SystemdBootConf::get
Get(es, id) ==
    LET is == {i \in 1..Len(es) : es[i].id = id}
    IN IF is = {} THEN None
       ELSE Some(es[CHOOSE i \in is : \A j \in is : i <= j])

\* the pieces the closure writes for an entry
EntryChunks(e) ==
    <<kwTitle \o SP, e.title, NL, kwLinux \o SP, e.linux, NL>>
    \o (IF IsSome(e.initrd) THEN <<kwInitrd \o SP, Unwrap(e.initrd), NL>> ELSE <<>>)
    \o (IF e.options # <<>>
        THEN <<kwOptions \o <<":", " ">>, Join(e.options, SP), NL>>
        ELSE <<>>)

\* format!("{}.conf", entry.id)
ConfName(id) == id \o <<".">> \o extConf

PutFile(dirSeq, name, text) ==
    IF IsSome(Item(dirSeq, name))
    THEN [i \in 1..Len(dirSeq) |->
            IF dirSeq[i].name = name THEN [dirSeq[i] EXCEPT !.text = text]
            ELSE dirSeq[i]]
    ELSE Append(dirSeq, [name |-> name, kind |-> "file", text |-> text])

OverwriteEntryConf(id, failAt) ==
    LET e == Get(entries, id)
    IN /\ IF ~IsSome(e)
          THEN /\ result' = ResErr("overwrite_entry_conf", "NotFound")
               /\ io' = NoIo
               /\ dir' = dir
          ELSE LET name == ConfName(Unwrap(e).id)
                   it   == Item(dir, name)
                   can  == dirOk /\ (~IsSome(it) \/ Unwrap(it).kind = "file")
                   chunks == EntryChunks(Unwrap(e))
                   w    == TryIo(can, chunks, failAt)
               IN /\ result' = IF w.ok THEN ResOk("overwrite_entry_conf")
                               ELSE ResErr("overwrite_entry_conf", "EntryWrite")
                  /\ io' = [failed |-> w.failed, produced |-> Concat(chunks),
                            path |-> name]
                  /\ dir' = IF w.created THEN PutFile(dir, name, w.disk) ELSE dir
       /\ UNCHANGED <<dirOk, loaderFile, entries, loader_conf>>
       /\ UNCHANGED cmdVars

(***************************************************************************)
(* LoaderConf                                                              *)
(***************************************************************************)
\* A u32 is kept as two base-100000 limbs <<hi, lo>> (value hi * 100000 + lo),
\* so that u32::MAX = 4294967295 and the overflow check at it are exact.
Limb == 100000
U32MaxHi == 42949
U32MaxLo == 67295

Digits == <<"0", "1", "2", "3", "4", "5", "6", "7", "8", "9">>
IsDigit(c) == \E i \in 1..10 : Digits[i] = c
DigitVal(c) == (CHOOSE i \in 1..10 : Digits[i] = c) - 1

\* acc.checked_mul(10)?.checked_add(d)? on the limbs
MulAdd(hi, lo, d) ==
    LET t   == lo * 10 + d
        lo2 == t % Limb
        hi2 == hi * 10 + (t \div Limb)
    IN IF hi2 > U32MaxHi \/ (hi2 = U32MaxHi /\ lo2 > U32MaxLo)
       THEN [ok |-> FALSE, val |-> <<0, 0>>]
       ELSE [ok |-> TRUE, val |-> <<hi2, lo2>>]

RECURSIVE ParseDigits(_, _)
ParseDigits(ds, acc) ==
    IF ds = <<>> THEN [ok |-> TRUE, val |-> acc]
    ELSE IF ~IsDigit(Head(ds)) THEN [ok |-> FALSE, val |-> <<0, 0>>]
    ELSE LET m == MulAdd(acc[1], acc[2], DigitVal(Head(ds)))
         IN IF ~m.ok THEN m ELSE ParseDigits(Tail(ds), m.val)

\* a parse that takes digits only, no leading '+'
ParseU32NoSign(s) ==
    IF s = <<>> THEN [ok |-> FALSE, val |-> <<0, 0>>]
    ELSE ParseDigits(s, <<0, 0>>)

\* str::parse::<u32>
ParseU32(s) ==
    IF s = <<>> THEN [ok |-> FALSE, val |-> <<0, 0>>]
    ELSE LET ds == IF Head(s) = "+" THEN Tail(s) ELSE s
         IN IF ds = <<>> THEN [ok |-> FALSE, val |-> <<0, 0>>]
            ELSE ParseDigits(ds, <<0, 0>>)

RECURSIVE FmtNat(_)
FmtNat(n) ==
    IF n < 10 THEN <<Digits[n + 1]>>
    ELSE FmtNat(n \div 10) \o <<Digits[(n % 10) + 1]>>

RECURSIVE Pad(_, _)
Pad(ds, width) == IF Len(ds) >= width THEN ds ELSE Pad(<<"0">> \o ds, width)

\* Display for u32 ("{}")
FmtU32(v) ==
    IF v[1] = 0 THEN FmtNat(v[2]) ELSE FmtNat(v[1]) \o Pad(FmtNat(v[2]), 5)

LoaderDefault == [default |-> None, timeout |-> None]

LoaderOut(err, text, loader) == [err |-> err, text |-> text, loader |-> loader]

\* the `timeout` arm of the match
TimeoutArm(loader, rest) ==
    IF rest = <<>> THEN LoaderOut("NoValueForTimeout", <<>>, loader)
    ELSE LET p == ParseU32(Head(rest))
         IN IF p.ok
            THEN LoaderOut("none", <<>>, [loader EXCEPT !.timeout = Some(p.val)])
            ELSE LoaderOut("TimeoutNaN", Head(rest), loader)

\* one iteration of the loop over the lines of loader.conf
LoaderLine(loader, line) ==
    LET fields == SplitWhitespace(line)
        key    == Head(fields)
        rest   == Tail(fields)
    IN IF fields = <<>> THEN LoaderOut("none", <<>>, loader)
       ELSE IF key = kwDefault
            THEN IF rest = <<>>
                 THEN LoaderOut("NoValueForDefault", <<>>, loader)
                 ELSE LoaderOut("none", <<>>,
                                [loader EXCEPT !.default = Some(Head(rest))])
       ELSE IF key = kwTimeout THEN TimeoutArm(loader, rest)
       ELSE LoaderOut("none", <<>>, loader)

RECURSIVE LoaderLoop(_, _)
LoaderLoop(loader, lines) ==
    IF lines = <<>> THEN LoaderOut("none", <<>>, loader)
    ELSE LET r == LoaderLine(loader, Head(lines))
         IN IF r.err # "none" THEN r ELSE LoaderLoop(r.loader, Tail(lines))

\* a missing loader.conf treated like a path that is not a file
AbsentNotAFile(loader) == LoaderOut("NotAFile", <<>>, loader)

\* what LoaderConf::from_path returns when the path does not exist
Absent(loader) == LoaderOut("none", <<>>, loader)

\* LoaderConf::from_path
LoaderFromPath(f) ==
    IF f.kind = "absent" THEN Absent(LoaderDefault)
    ELSE IF f.kind = "dir" THEN LoaderOut("NotAFile", <<>>, LoaderDefault)
    ELSE IF f.kind = "locked" THEN LoaderOut("Open", <<>>, LoaderDefault)
    ELSE LoaderLoop(LoaderDefault, Lines(f.text))

\* SystemdBootConf::load_conf
LoadConf ==
    LET r == LoaderFromPath(loaderFile)
    IN /\ IF r.err = "none"
          THEN /\ loader_conf' = r.loader
               /\ result' = ResOk("load_conf")
          ELSE /\ loader_conf' = loader_conf
               /\ result' = Res("load_conf", "Loader", <<>>, r.err, r.text, "none")
       /\ io' = NoIo
       /\ UNCHANGED <<dir, dirOk, loaderFile, entries>>
       /\ UNCHANGED cmdVars

\* the pieces the closure writes for the loader configuration
LoaderChunks(l) ==
    (IF IsSome(l.default) THEN <<kwDefault \o SP, Unwrap(l.default), NL>> ELSE <<>>)
    \o (IF IsSome(l.timeout)
        THEN <<kwTimeout \o SP, FmtU32(Unwrap(l.timeout)), NL>>
        ELSE <<>>)

\* SystemdBootConf::overwrite_loader_conf
OverwriteLoaderConf(failAt) ==
    LET chunks == LoaderChunks(loader_conf)
        w == TryIo(loaderFile.kind \in {"absent", "file"}, chunks, failAt)
    IN /\ result' = IF w.ok THEN ResOk("overwrite_loader_conf")
                    ELSE ResErr("overwrite_loader_conf", "LoaderWrite")
       /\ io' = [failed |-> w.failed, produced |-> Concat(chunks), path |-> <<>>]
       /\ loaderFile' = IF w.created THEN [kind |-> "file", text |-> w.disk]
                        ELSE loaderFile
       /\ UNCHANGED <<dir, dirOk, entries, loader_conf>>
       /\ UNCHANGED cmdVars

(***************************************************************************)
(* SystemdBootConf::default_entry_exists                                   *)
(***************************************************************************)
\* entry_exists comparing the title instead of the id
EntryExistsByTitle(es, id) == \E i \in 1..Len(es) : es[i].title = id

\* SystemdBootConf::entry_exists
EntryExists(es, id) == \E i \in 1..Len(es) : es[i].id = id

DefaultState(l, es) ==
    IF IsSome(l.default)
    THEN IF EntryExists(es, Unwrap(l.default)) THEN "Exists" ELSE "DoesNotExist"
    ELSE "NotDefined"

DefaultEntryExists ==
    /\ result' = Res("default_entry_exists", "none", <<>>, "none", <<>>,
                     DefaultState(loader_conf, entries))
    /\ io' = NoIo
    /\ UNCHANGED <<dir, dirOk, loaderFile, entries, loader_conf>>
    /\ UNCHANGED cmdVars

(***************************************************************************)
(* The file system changing under the program                              *)
(***************************************************************************)
ResNone == ResOk("none")

\* loader/entries becomes unreadable (the ESP is unmounted) or readable again
EnvToggleDir ==
    /\ dirOk' = ~dirOk
    /\ result' = ResNone
    /\ io' = NoIo
    /\ UNCHANGED <<dir, loaderFile, entries, loader_conf>>
    /\ UNCHANGED cmdVars

\* loader.conf is deleted
EnvRemoveLoader ==
    /\ loaderFile.kind = "file"
    /\ loaderFile' = [kind |-> "absent", text |-> <<>>]
    /\ result' = ResNone
    /\ io' = NoIo
    /\ UNCHANGED <<dir, dirOk, entries, loader_conf>>
    /\ UNCHANGED cmdVars

(***************************************************************************)
(* kernel_cmdline and Entry::is_current                                    *)
(***************************************************************************)
Threads == 1..NThreads

CellEmpty == [state |-> "incomplete", value |-> <<>>]

\* a lazy cell without the running state: every caller that finds no value
\* yet runs the closure
CanInitRacy(cell) == cell.state # "complete"

\* OnceCell::get_or_init runs its closure in the caller that finds the cell
\* incomplete and marks it running in the same atomic step; a caller that
\* finds it running waits until it is complete.
CanInit(cell) == cell.state = "incomplete"

\* x.replace('/', "\\")
RECURSIVE Replace(_)
Replace(s) ==
    IF s = <<>> THEN <<>>
    ELSE <<IF Head(s) = "/" THEN "\\" ELSE Head(s)>> \o Replace(Tail(s))

\* initrd.iter().cloned().chain(options)
ExpectedCmdline(e) ==
    (IF IsSome(e.initrd)
     THEN <<kwInitrd \o <<"=">> \o Replace(Unwrap(e.initrd))>>
     ELSE <<>>)
    \o e.options

\* a.zip(b).all(|(a, b)| a == b)
RECURSIVE ZipAll(_, _)
ZipAll(a, b) ==
    IF a = <<>> \/ b = <<>> THEN TRUE
    ELSE Head(a) = Head(b) /\ ZipAll(Tail(a), Tail(b))

\* is_current comparing the whole sequences
IsCurrentExact(e, live) == live = ExpectedCmdline(e)

\* the value Entry::is_current returns given the slice kernel_cmdline returned
IsCurrent(e, live) == ZipAll(live, ExpectedCmdline(e))

tokQ == <<"q">>
tokR == <<"r">>
initrdI  == <<"/", "i">>
initrdBI == <<"/", "b", "/", "i">>
liveI    == kwInitrd \o <<"=", "\\", "i">>
liveBI   == kwInitrd \o <<"=", "\\", "b", "\\", "i">>
liveBsI  == kwInitrd \o <<"=", "\\", "b", "/", "i">>
liveRoot == <<"r", "o", "o", "t", "=", "x">>

\* contents of /proc/cmdline the model draws from (None: unreadable)
CmdlineSources ==
    { None,
      Some(<<>>),
      Some(liveI \o SP \o tokQ \o NL),
      Some(liveBI \o SP \o tokQ \o <<" ", "\t">> \o tokR \o NL),
      Some(liveBsI \o SP \o tokQ \o NL),
      Some(tokQ \o SP \o tokR \o NL),
      Some(liveRoot \o SP \o liveI \o SP \o tokQ \o NL) }

\* the entries whose is_current the threads call
CurrentEntries ==
    { [EntryDefault EXCEPT !.initrd = i, !.options = o] :
        i \in {None, Some(initrdI), Some(initrdBI)},
        o \in {<<>>, <<tokQ>>, <<tokQ, tokR>>, <<tokR>>} }

\* Entry::is_current up to its call of kernel_cmdline
CallIsCurrent(t, e) ==
    /\ pc[t] = "idle"
    /\ calls < MaxCalls
    /\ calls' = calls + 1
    /\ self_entry' = [self_entry EXCEPT ![t] = e]
    /\ ret' = [ret EXCEPT ![t] = None]
    /\ seen' = [seen EXCEPT ![t] = None]
    /\ pc' = [pc EXCEPT ![t] = "cmdline"]
    /\ UNCHANGED <<procCmdline, CMDLINE_BUF, CMDLINE, returned, reads, builds>>
    /\ UNCHANGED mgrVars

\* CMDLINE.get_or_init(..): the value, or the start of the outer closure
GetCmdline(t) ==
    /\ pc[t] = "cmdline"
    /\ \/ /\ CMDLINE.state = "complete"
          /\ seen' = [seen EXCEPT ![t] = Some(CMDLINE.value)]
          /\ returned' = returned \cup {CMDLINE.value}
          /\ pc' = [pc EXCEPT ![t] = "zip"]
          /\ UNCHANGED CMDLINE
       \/ /\ CMDLINE.state # "complete"
          /\ CanInit(CMDLINE)
          /\ CMDLINE' = [CMDLINE EXCEPT !.state = "running"]
          /\ pc' = [pc EXCEPT ![t] = "buf"]
          /\ UNCHANGED <<seen, returned>>
    /\ UNCHANGED <<procCmdline, CMDLINE_BUF, self_entry, ret, reads, builds, calls>>
    /\ UNCHANGED mgrVars

\* CMDLINE_BUF.get_or_init(..): the value, or the start of the inner closure
GetBuf(t) ==
    /\ pc[t] = "buf"
    /\ \/ /\ CMDLINE_BUF.state = "complete"
          /\ pc' = [pc EXCEPT ![t] = "split"]
          /\ UNCHANGED CMDLINE_BUF
       \/ /\ CMDLINE_BUF.state # "complete"
          /\ CanInit(CMDLINE_BUF)
          /\ CMDLINE_BUF' = [CMDLINE_BUF EXCEPT !.state = "running"]
          /\ pc' = [pc EXCEPT ![t] = "read"]
    /\ UNCHANGED <<procCmdline, CMDLINE, self_entry, ret, seen, returned,
                   reads, builds, calls>>
    /\ UNCHANGED mgrVars

\* fs::read_to_string("/proc/cmdline").unwrap_or_default().into()
ReadProc(t) ==
    /\ pc[t] = "read"
    /\ reads' = reads + 1
    /\ CMDLINE_BUF' = [state |-> "complete",
                       value |-> IF IsSome(procCmdline) THEN Unwrap(procCmdline)
                                 ELSE <<>>]
    /\ pc' = [pc EXCEPT ![t] = "split"]
    /\ UNCHANGED <<procCmdline, CMDLINE, self_entry, ret, seen, returned,
                   builds, calls>>
    /\ UNCHANGED mgrVars

\* cmdline.split_ascii_whitespace().collect().into(), stored in CMDLINE
SplitCmdline(t) ==
    /\ pc[t] = "split"
    /\ builds' = builds + 1
    /\ LET toks == SplitWhitespace(CMDLINE_BUF.value)
       IN /\ CMDLINE' = [state |-> "complete", value |-> toks]
          /\ seen' = [seen EXCEPT ![t] = Some(toks)]
          /\ returned' = returned \cup {toks}
    /\ pc' = [pc EXCEPT ![t] = "zip"]
    /\ UNCHANGED <<procCmdline, CMDLINE_BUF, self_entry, ret, reads, calls>>
    /\ UNCHANGED mgrVars

\* the rest of Entry::is_current
ZipCmdline(t) ==
    /\ pc[t] = "zip"
    /\ ret' = [ret EXCEPT ![t] = Some(IsCurrent(self_entry[t], Unwrap(seen[t])))]
    /\ pc' = [pc EXCEPT ![t] = "idle"]
    /\ UNCHANGED <<procCmdline, CMDLINE_BUF, CMDLINE, self_entry, seen, returned,
                   reads, builds, calls>>
    /\ UNCHANGED mgrVars

(***************************************************************************)
(* Initial states                                                          *)
(***************************************************************************)
SeqsUpTo(S, n) == UNION {[1..k -> S] : k \in 0..n}

\* a file made of the given lines, each ended by a newline
TextOf(ls) == Concat([i \in 1..Len(ls) |-> ls[i] \o NL])

valA == <<"A">>
valB == <<"B">>
valK == <<"/", "k">>
valV == <<"/", "v">>

\* lines of entry files
EntryLineSet ==
    { kwTitle \o <<" ", " ">> \o valA \o <<" ", "\t">> \o valB,
      kwTitle,
      kwLinux \o SP \o valK,
      <<"\t">> \o kwLinux \o SP \o valV \o SP \o valA,
      kwLinux,
      kwInitrd \o SP \o initrdI,
      kwInitrd \o SP,
      kwOptions \o SP \o tokQ \o SP \o tokR,
      kwOptions,
      <<>> }

nameA   == <<"a", ".">> \o extConf
nameB   == <<"b", ".">> \o extConf
nameTxt == <<"c", ".", "t", "x", "t">>
nameHid == <<".">> \o extConf

textValid  == TextOf(<<kwTitle \o SP \o valA, kwLinux \o SP \o valK>>)
textFull   == TextOf(<<kwTitle \o SP \o valB, kwLinux \o SP \o valV,
                       kwInitrd \o SP \o initrdI, kwOptions \o SP \o tokQ>>)
textNoLinux == TextOf(<<kwTitle \o SP \o valA>>)
textNoValue == TextOf(<<kwTitle \o SP \o valA, kwLinux \o SP \o valK, kwInitrd>>)

DirItems ==
    { [name |-> nameA, kind |-> "file", text |-> t] :
        t \in {textValid, textNoLinux} }
    \cup { [name |-> nameB, kind |-> "file", text |-> t] :
             t \in {textFull, textNoValue} }
    \cup { [name |-> n, kind |-> "file", text |-> textValid] :
             n \in {nameTxt, nameHid} }
    \cup { [name |-> nameB, kind |-> k, text |-> <<>>] :
             k \in {"dir", "locked", "err"} }

DistinctNames(d) == \A i, j \in 1..Len(d) : d[i].name = d[j].name => i = j

idA == <<"a">>
idB == <<"b">>
idZ == <<"z">>

\* lines of loader.conf
LoaderLineSet ==
    { kwDefault \o SP \o idA,
      kwDefault \o SP \o idZ,
      kwDefault,
      kwTimeout,
      kwTimeout \o SP \o <<"5">>,
      kwTimeout \o <<"\t">> \o <<"0", "0", "7">> \o SP \o <<"9">>,
      kwTimeout \o SP \o <<"+", "3">>,
      kwTimeout \o SP \o <<"-", "1">>,
      kwTimeout \o SP \o <<"+">>,
      kwTimeout \o SP \o <<"a", "b", "c">>,
      kwTimeout \o SP \o <<"5", "s">>,
      kwTimeout \o SP \o <<"4", "2", "9", "4", "9", "6", "7", "2", "9", "5">>,
      kwTimeout \o SP \o <<"4", "2", "9", "4", "9", "6", "7", "2", "9", "6">>,
      kwTimeout \o SP \o <<"9", "9", "9", "9", "9", "9", "9", "9", "9", "9", "9">>,
      <<"x">> }

InitCmdIdle ==
    /\ procCmdline = None
    /\ CMDLINE_BUF = CellEmpty
    /\ CMDLINE = CellEmpty
    /\ pc = [t \in Threads |-> "idle"]
    /\ self_entry = [t \in Threads |-> EntryDefault]
    /\ ret = [t \in Threads |-> None]
    /\ seen = [t \in Threads |-> None]
    /\ returned = {}
    /\ reads = 0
    /\ builds = 0
    /\ calls = 0

\* the fields SystemdBootConf::new sets before it loads anything
InitManager ==
    /\ entries = <<>>
    /\ loader_conf = LoaderDefault
    /\ result = ResNone
    /\ io = NoIo

\* one entry file a.conf, of any content
InitEntry ==
    /\ \E ls \in SeqsUpTo(EntryLineSet, MaxLines) :
          dir = <<[name |-> nameA, kind |-> "file", text |-> TextOf(ls)]>>
    /\ dirOk = TRUE
    /\ loaderFile = [kind |-> "absent", text |-> <<>>]
    /\ InitManager
    /\ InitCmdIdle

\* a directory of several items
InitDir ==
    /\ dir \in {d \in SeqsUpTo(DirItems, MaxItems) : DistinctNames(d)}
    /\ dirOk = TRUE
    /\ loaderFile \in { [kind |-> "absent", text |-> <<>>],
                        [kind |-> "file", text |-> TextOf(<<kwDefault \o SP \o idA>>)],
                        [kind |-> "file", text |-> TextOf(<<kwDefault \o SP \o idZ>>)] }
    /\ InitManager
    /\ InitCmdIdle

\* loader.conf of any content, or absent, or not a regular file
InitLoader ==
    /\ dir = <<[name |-> nameA, kind |-> "file", text |-> textValid]>>
    /\ dirOk = TRUE
    /\ \/ \E ls \in SeqsUpTo(LoaderLineSet, MaxLoaderLines) :
             loaderFile = [kind |-> "file", text |-> TextOf(ls)]
       \/ \E k \in {"absent", "dir", "locked"} :
             loaderFile = [kind |-> k, text |-> <<>>]
    /\ InitManager
    /\ InitCmdIdle

InitCmdline ==
    /\ dir = <<>>
    /\ dirOk = TRUE
    /\ loaderFile = [kind |-> "absent", text |-> <<>>]
    /\ InitManager
    /\ procCmdline \in CmdlineSources
    /\ CMDLINE_BUF = CellEmpty
    /\ CMDLINE = CellEmpty
    /\ pc = [t \in Threads |-> "idle"]
    /\ self_entry = [t \in Threads |-> EntryDefault]
    /\ ret = [t \in Threads |-> None]
    /\ seen = [t \in Threads |-> None]
    /\ returned = {}
    /\ reads = 0
    /\ builds = 0
    /\ calls = 0

(***************************************************************************)
(* Specifications                                                          *)
(***************************************************************************)
EntryIds == {idA, idB, idZ}

NextEntry ==
    \/ LoadEntries
    \/ \E id \in EntryIds, f \in 0..MaxFailAt : OverwriteEntryConf(id, f)

NextDir ==
    \/ LoadEntries
    \/ LoadConf
    \/ DefaultEntryExists
    \/ \E id \in EntryIds, f \in 0..MaxFailAt : OverwriteEntryConf(id, f)
    \/ EnvToggleDir

NextLoader ==
    \/ LoadConf
    \/ \E f \in 0..MaxFailAt : OverwriteLoaderConf(f)
    \/ EnvRemoveLoader

NextCmdline ==
    \E t \in Threads :
        \/ \E e \in CurrentEntries : CallIsCurrent(t, e)
        \/ GetCmdline(t)
        \/ GetBuf(t)
        \/ ReadProc(t)
        \/ SplitCmdline(t)
        \/ ZipCmdline(t)

SpecEntry == InitEntry /\ [][NextEntry]_vars
SpecDir == InitDir /\ [][NextDir]_vars
SpecLoader == InitLoader /\ [][NextLoader]_vars
SpecCmdline == InitCmdline /\ [][NextCmdline]_vars

(***************************************************************************)
(* Entry::from_path: order of the outcomes                                 *)
(***************************************************************************)
\* the fields of line i of the only file of the directory
C7_Fields(i) == SplitWhitespace(Lines(dir[1].text)[i])
C7_N == Len(Lines(dir[1].text))
C7_NoValue(i) ==
    /\ Len(C7_Fields(i)) = 1
    /\ C7_Fields(i)[1] \in {kwLinux, kwInitrd}
C7_Keyed(k) == {i \in 1..C7_N : C7_Fields(i) # <<>> /\ C7_Fields(i)[1] = k}
C7_Last(k) == CHOOSE i \in C7_Keyed(k) : \A j \in C7_Keyed(k) : j <= i
C7_Title == IF C7_Keyed(kwTitle) = {} THEN <<>>
            ELSE Join(Tail(C7_Fields(C7_Last(kwTitle))), SP)
C7_Loaded == /\ result.op = "load_entries"
             /\ dirOk
             /\ Len(dir) = 1
             /\ dir[1].kind = "file"
             /\ dir[1].name = nameA

\* C7: Entry::from_path on a readable regular file fails at the first line
\* that is `linux` or `initrd` without a value, with NoValueForLinux resp.
\* NoValueForInitrd, whatever earlier lines gave; otherwise, after all lines,
\* it fails with the missing-title error when the title is empty, else with
\* the missing-linux error when linux is empty, else it succeeds with a
\* non-empty title and linux; an `options` line without tokens gives empty
\* options and no error.
C7_FromPathOrder ==
    C7_Loaded =>
        LET bad == {i \in 1..C7_N : C7_NoValue(i)}
        IN IF bad # {}
           THEN LET k == CHOOSE i \in bad : \A j \in bad : i <= j
                IN /\ result.err = "Entry"
                   /\ result.source = IF C7_Fields(k)[1] = kwLinux
                                      THEN "NoValueForLinux"
                                      ELSE "NoValueForInitrd"
           ELSE IF C7_Title = <<>>
           THEN result.err = "Entry" /\ result.source = "MisisngTitle"
           ELSE IF C7_Keyed(kwLinux) = {}
           THEN result.err = "Entry" /\ result.source = "MissingLinux"
           ELSE /\ result.err = "none"
                /\ Len(entries) = 1
                /\ entries[1].title # <<>>
                /\ entries[1].linux # <<>>
                /\ C7_Keyed(kwOptions) # {}
                     => entries[1].options = Tail(C7_Fields(C7_Last(kwOptions)))

\* title and linux given validly on lines 1 and 2, and line 3 is a bare
\* `initrd`: the load has failed with NoValueForInitrd
C7_Witness ==
    /\ C7_Loaded
    /\ C7_N = 3
    /\ Len(C7_Fields(1)) > 1 /\ C7_Fields(1)[1] = kwTitle
    /\ Len(C7_Fields(2)) > 1 /\ C7_Fields(2)[1] = kwLinux
    /\ C7_Fields(3) = <<kwInitrd>>
    /\ result.source = "NoValueForInitrd"

(***************************************************************************)
(* Write-back and re-parse                                                 *)
(***************************************************************************)
C1_Written == /\ result.op = "overwrite_entry_conf"
              /\ result.err = "none"
              /\ ~io.failed

\* C1: an entry that was parsed from its file, written back with
\* overwrite_entry_conf and parsed again with Entry::from_path parses to the
\* same title, linux, initrd and options.
C1_RoundTrip ==
    C1_Written =>
        LET e == Unwrap(Get(entries, FileStem(io.path)))
            r == EntryFromPath(dir, io.path)
        IN /\ r.err = "none"
           /\ r.entry.title = e.title
           /\ r.entry.linux = e.linux
           /\ r.entry.initrd = e.initrd
           /\ r.entry.options = e.options

C3_File == IF result.op = "overwrite_loader_conf" THEN loaderFile.text
           ELSE Unwrap(Item(dir, io.path)).text

\* C3: overwrite_loader_conf and overwrite_entry_conf return Ok only when
\* every byte they produced is in the destination file, and a failing
\* underlying write, the one of the final flush included, is returned as
\* LoaderWrite resp. EntryWrite.
C3_WriteFlushed ==
    result.op \in {"overwrite_loader_conf", "overwrite_entry_conf"}
        /\ result.err # "NotFound" =>
        /\ result.err = "none" => C3_File = io.produced
        /\ io.failed => result.err = IF result.op = "overwrite_loader_conf"
                                     THEN "LoaderWrite" ELSE "EntryWrite"

(***************************************************************************)
(* SystemdBootConf::load_entries over a directory                          *)
(***************************************************************************)
\* item i is a regular file with extension conf
Dir_Conf(i) == dir[i].kind \in {"file", "locked"}
               /\ Len(dir[i].name) > 5
               /\ SubSeq(dir[i].name, Len(dir[i].name) - 4, Len(dir[i].name))
                    = <<".", "c", "o", "n", "f">>
Dir_Parse(i) == EntryFromPath(dir, dir[i].name)
Dir_Malformed == {i \in 1..Len(dir) : Dir_Conf(i) /\ Dir_Parse(i).err # "none"}
Dir_Enumerable == dirOk /\ \A i \in 1..Len(dir) : dir[i].kind # "err"

\* C4: when the entries directory can be enumerated and holds a regular conf
\* file that Entry::from_path rejects, load_entries fails with Error::Entry
\* carrying the path of the first such file in enumeration order and its
\* EntryError, whatever valid files the directory also holds.
C4_MalformedAborts ==
    result.op = "load_entries" /\ Dir_Enumerable /\ Dir_Malformed # {} =>
        LET k == CHOOSE i \in Dir_Malformed : \A j \in Dir_Malformed : i <= j
        IN /\ result.err = "Entry"
           /\ result.path = dir[k].name
           /\ result.source = Dir_Parse(k).err

\* a valid conf file comes first, a malformed one after it, and the load failed
C4_Witness ==
    /\ result.op = "load_entries"
    /\ Dir_Enumerable
    /\ Len(dir) >= 2
    /\ Dir_Conf(1) /\ Dir_Parse(1).err = "none"
    /\ 2 \in Dir_Malformed
    /\ result.err = "Entry"

\* the first item load_entries fails on, Len(dir) + 1 when there is none
Dir_Stop ==
    LET f == {i \in 1..Len(dir) : dir[i].kind = "err" \/ i \in Dir_Malformed}
    IN IF f = {} THEN Len(dir) + 1 ELSE CHOOSE i \in f : \A j \in f : i <= j

\* the entries of the conf files before item k, in enumeration order
Dir_Before(es, k) ==
    LET c == {i \in 1..(k - 1) : Dir_Conf(i)}
    IN /\ Len(es) = Cardinality(c)
       /\ \A i \in c : es[Cardinality({j \in c : j <= i})] = Dir_Parse(i).entry

\* C10: a load_entries that fails with EntriesDir leaves the collection
\* unchanged; one that fails on a directory item leaves exactly the entries
\* parsed before that item, in enumeration order; one that succeeds leaves
\* exactly one entry per regular conf file, replacing the previous contents.
C10_EntriesAfterLoad ==
    [][result'.op = "load_entries" =>
         /\ ~dirOk => result'.err = "EntriesDir"
         /\ result'.err = "EntriesDir" => entries' = entries
         /\ result'.err \in {"FileEntry", "Entry"} =>
              Dir_Stop <= Len(dir) /\ Dir_Before(entries', Dir_Stop)
         /\ result'.err = "none" =>
              Dir_Stop = Len(dir) + 1 /\ Dir_Before(entries', Len(dir) + 1)]_vars

\* a load failed on the second item and kept the entry of the first
C10_Witness ==
    /\ result.op = "load_entries"
    /\ result.err \in {"FileEntry", "Entry"}
    /\ Dir_Stop = 2
    /\ Len(entries) = 1
    /\ entries[1] = Dir_Parse(1).entry

(***************************************************************************)
(* SystemdBootConf::default_entry_exists                                   *)
(***************************************************************************)
C9_Ids == {entries[i].id : i \in 1..Len(entries)}

\* C9: default_entry_exists returns NotDefined exactly when
\* loader_conf.default is unset, Exists exactly when it is set to the id of
\* an entry of the collection, DoesNotExist exactly when it is set to the id
\* of no entry of the collection.
C9_DefaultState ==
    result.op = "default_entry_exists" =>
        /\ result.value = "NotDefined" <=> loader_conf.default = None
        /\ result.value = "Exists" <=>
             loader_conf.default # None /\ loader_conf.default[1] \in C9_Ids
        /\ result.value = "DoesNotExist" <=>
             loader_conf.default # None /\ loader_conf.default[1] \notin C9_Ids

\* the default names one of two loaded entries, the second
C9_Witness ==
    /\ result.op = "default_entry_exists"
    /\ result.value = "Exists"
    /\ Len(entries) = 2
    /\ entries[1].id # loader_conf.default[1]

(***************************************************************************)
(* LoaderConf::from_path                                                   *)
(***************************************************************************)
\* C8: LoaderConf::from_path on a path that does not exist returns Ok with
\* default = None and timeout = None, so load_conf succeeds and resets
\* loader_conf to the empty record; on a path that exists and is not a
\* regular file it fails with LoaderError::NotAFile.
C8_AbsentIsDefault ==
    result.op = "load_conf" =>
        /\ loaderFile.kind = "absent" =>
             /\ result.err = "none"
             /\ loader_conf.default = None
             /\ loader_conf.timeout = None
        /\ loaderFile.kind = "dir" =>
             result.err = "Loader" /\ result.source = "NotAFile"

\* load_conf has succeeded on an absent loader.conf
C8_Witness ==
    /\ result.op = "load_conf"
    /\ loaderFile.kind = "absent"
    /\ result.err = "none"

\* the last line of loader.conf is a `timeout` line that the parse reaches
C6_Lines == Lines(loaderFile.text)
C6_Fields == SplitWhitespace(C6_Lines[Len(C6_Lines)])
C6_TimeoutLast ==
    /\ result.op = "load_conf"
    /\ loaderFile.kind = "file"
    /\ C6_Lines # <<>>
    /\ C6_Fields # <<>>
    /\ C6_Fields[1] = kwTimeout
    /\ LoaderLoop(LoaderDefault, SubSeq(C6_Lines, 1, Len(C6_Lines) - 1)).err = "none"

C6_AllDigits(f) ==
    f # <<>> /\ \A i \in 1..Len(f) :
        f[i] \in {"0", "1", "2", "3", "4", "5", "6", "7", "8", "9"}

\* the decimal digit of weight 10^p in the digit string f
C6_DigitAt(f, p) == IF p < Len(f) THEN DigitVal(f[Len(f) - p]) ELSE 0
C6_Lo(f) == C6_DigitAt(f, 0) + 10 * C6_DigitAt(f, 1) + 100 * C6_DigitAt(f, 2)
            + 1000 * C6_DigitAt(f, 3) + 10000 * C6_DigitAt(f, 4)
C6_Hi(f) == C6_DigitAt(f, 5) + 10 * C6_DigitAt(f, 6) + 100 * C6_DigitAt(f, 7)
            + 1000 * C6_DigitAt(f, 8) + 10000 * C6_DigitAt(f, 9)
\* the digit string has no non-zero digit of weight 10^10 or more
C6_TenDigits(f) == \A i \in 1..Len(f) : Len(f) - i >= 10 => f[i] = "0"
\* the timeout that was stored is the integer the digit string f denotes
C6_Stored(f) ==
    /\ result.err = "none"
    /\ C6_TenDigits(f)
    /\ loader_conf.timeout = <<(<<C6_Hi(f), C6_Lo(f)>>)>>
C6_NaN(f) ==
    /\ result.err = "Loader"
    /\ result.source = "TimeoutNaN"
    /\ result.text = f
C6_NoValue ==
    /\ result.err = "Loader"
    /\ result.source = "NoValueForTimeout"

\* C6 as stated: on a `timeout` line, a next field that is the base-10 text
\* of a non-negative integer is stored as the timeout, any other next field
\* fails with TimeoutNaN carrying the field, no next field fails with
\* NoValueForTimeout.  (Fields with a leading '+' are left aside here: the
\* wording does not settle whether "+3" is the base-10 text of 3.)
C6_Original ==
    C6_TimeoutLast =>
        IF Len(C6_Fields) = 1 THEN C6_NoValue
        ELSE IF C6_Fields[2][1] = "+" THEN TRUE
        ELSE IF C6_AllDigits(C6_Fields[2]) THEN C6_Stored(C6_Fields[2])
        ELSE C6_NaN(C6_Fields[2])

\* the digits of a field that parse::<u32> accepts: after an optional '+'
C6_Unsigned(f) == IF f # <<>> /\ f[1] = "+" THEN Tail(f) ELSE f
C6_FitsU32(f) ==
    /\ C6_AllDigits(f)
    /\ C6_TenDigits(f)
    /\ \/ C6_Hi(f) < 42949
       \/ C6_Hi(f) = 42949 /\ C6_Lo(f) <= 67295

\* C6 amended: on a `timeout` line, a next field made of an optional '+' and
\* decimal digits whose value is at most 4294967295 is stored as the timeout
\* with that value, any other next field fails with TimeoutNaN carrying the
\* field, no next field fails with NoValueForTimeout.
C6_TimeoutU32 ==
    C6_TimeoutLast =>
        IF Len(C6_Fields) = 1 THEN C6_NoValue
        ELSE IF C6_FitsU32(C6_Unsigned(C6_Fields[2]))
        THEN C6_Stored(C6_Unsigned(C6_Fields[2]))
        ELSE C6_NaN(C6_Fields[2])

\* the field 4294967296 = u32::MAX + 1 was rejected as TimeoutNaN
C6_Witness ==
    /\ C6_TimeoutLast
    /\ Len(C6_Fields) = 2
    /\ C6_Fields[2] = <<"4", "2", "9", "4", "9", "6", "7", "2", "9", "6">>
    /\ C6_NaN(C6_Fields[2])

(***************************************************************************)
(* Entry::is_current and kernel_cmdline                                    *)
(***************************************************************************)
\* "initrd=" followed by the initrd value with every '/' replaced by '\'
C2_InitrdToken(x) ==
    [j \in 1..(7 + Len(x)) |->
        IF j <= 7 THEN <<"i", "n", "i", "t", "r", "d", "=">>[j]
        ELSE IF x[j - 7] = "/" THEN "\\" ELSE x[j - 7]]

\* that token, when initrd is set, followed by the options in order
C2_Expected(e) ==
    LET off == IF e.initrd = None THEN 0 ELSE 1
    IN [i \in 1..(off + Len(e.options)) |->
          IF i <= off THEN C2_InitrdToken(e.initrd[1]) ELSE e.options[i - off]]

\* C2: Entry::is_current returns true iff live[i] = expected[i] at every
\* position i up to the length of the shorter of the two, live being the
\* cached command-line tokens and expected the initrd token followed by the
\* options; nothing beyond the shorter length is compared.
C2_IsCurrentZip ==
    \A t \in Threads :
        ret[t] # None =>
            LET live == CMDLINE.value
                exp  == C2_Expected(self_entry[t])
            IN /\ CMDLINE.state = "complete"
               /\ ret[t][1] = (\A i \in 1..Min(Len(live), Len(exp)) : live[i] = exp[i])

\* an entry with initrd /b/i and one option matched a longer live command line
C2_Witness ==
    \E t \in Threads :
        /\ ret[t] = Some(TRUE)
        /\ self_entry[t].initrd = Some(initrdBI)
        /\ Len(self_entry[t].options) = 1
        /\ Len(CMDLINE.value) = 3

\* C5: under any interleaving of kernel_cmdline calls, /proc/cmdline is read
\* at most once and the token sequence is built at most once; every call in
\* every thread returns the same token sequence, the one built from the text
\* that was read.
C5_InitOnce ==
    /\ reads <= 1
    /\ builds <= 1
    /\ Cardinality(returned) <= 1
    /\ returned # {} =>
         /\ reads = 1 /\ builds = 1
         /\ CMDLINE.state = "complete"
         /\ returned = {CMDLINE.value}
         /\ CMDLINE.value = SplitWhitespace(IF procCmdline = None THEN <<>>
                                            ELSE procCmdline[1])
    /\ \A t \in Threads : seen[t] # None => seen[t][1] \in returned

\* two threads are inside is_current at once, each with the slice it was handed
C5_Witness ==
    \E t1, t2 \in Threads :
        /\ t1 # t2
        /\ pc[t1] = "zip" /\ pc[t2] = "zip"
        /\ seen[t1] # None /\ seen[t2] # None
        /\ returned # {}
=============================================================================
